---- MODULE Spec2Model ----
(***************************************************************************)
(* Model of kernel/power/wakelock.c: the user-space wakelock registry      *)
(* (rb-tree name index, LRU list, garbage collector) and the wakelock      *)
(* filter that drops selected acquisitions while the screen is off.        *)
(*                                                                         *)
(* C strings are sequences of one-character strings (without the final     *)
(* NUL); u64 values are four limbs in base 10^6, least significant first,  *)
(* so that arithmetic modulo 2^64 is exact.  ktime is counted in seconds.  *)
(***************************************************************************)
EXTENDS Integers, Sequences, FiniteSets, TLC

(***************************************************************************)
(* Bounds of the model                                                     *)
(***************************************************************************)
MaxTicks == 1
MaxBusyReleases == 1
MaxGcCount == 102
MaxObj == 3
CONFIG_PM_WAKELOCKS_LIMIT == 1

(***************************************************************************)
(* Program constants                                                       *)
(***************************************************************************)
WL_GC_COUNT_MAX == 100
WL_GC_TIME_SEC == 300
NSEC_PER_MSEC == 1000000

EINVAL == 22
ENOSPC == 28
ENOMEM == 12
EPERM == 1

NULL == 0

(***************************************************************************)
(* Characters and C string functions                                       *)
(***************************************************************************)
NUL == ""

Alphabet ==
  << "\t", "\n", " ", "+", "-",
     "0", "1", "2", "3", "4", "5", "6", "7", "8", "9", "_",
     "a", "b", "c", "d", "e", "f", "g", "h", "i", "j", "k", "l", "m",
     "n", "o", "p", "q", "r", "s", "t", "u", "v", "w", "x", "y", "z" >>

\* position of a character in ASCII order; NUL is the smallest
Ord(c) == IF c = NUL THEN 0 ELSE CHOOSE i \in 1..Len(Alphabet) : Alphabet[i] = c

isspace(c) == c \in {" ", "\t", "\n"}

isdigit(c) == c \in {"0", "1", "2", "3", "4", "5", "6", "7", "8", "9"}

DigitVal(c) == Ord(c) - Ord("0")

\* s[i] of a NUL terminated string, i counted from 1
CharAt(s, i) == IF i >= 1 /\ i <= Len(s) THEN s[i] ELSE NUL

\* the string that starts at the i-th character of s
StrFrom(s, i) == IF i > Len(s) THEN << >> ELSE SubSeq(s, i, Len(s))

RECURSIVE strncmp_from(_, _, _, _)
strncmp_from(a, b, i, n) ==
  IF i > n THEN 0
  ELSE IF Ord(CharAt(a, i)) < Ord(CharAt(b, i)) THEN -1
  ELSE IF Ord(CharAt(a, i)) > Ord(CharAt(b, i)) THEN 1
  ELSE IF CharAt(a, i) = NUL THEN 0
  ELSE strncmp_from(a, b, i + 1, n)

\* sign of strncmp(a, b, n)
strncmp(a, b, n) == strncmp_from(a, b, 1, n)

\* strstr(haystack, needle) != NULL
strstr(h, n) ==
  \E i \in 0..(Len(h) - Len(n)) : \A j \in 1..Len(n) : h[i + j] = n[j]

RECURSIVE skip_spaces(_)
skip_spaces(s) ==
  IF s # << >> /\ isspace(Head(s)) THEN skip_spaces(Tail(s)) ELSE s

(***************************************************************************)
(* u64 arithmetic: the value of <<l0, l1, l2, l3>> is                      *)
(* l0 + l1*10^6 + l2*10^12 + l3*10^18                                      *)
(***************************************************************************)
Base == NSEC_PER_MSEC

U64Zero == <<0, 0, 0, 0>>

\* 2^64 = 18 446744 073709 551616
TwoTo64 == <<551616, 73709, 446744, 18>>

U64Less(a, b) ==
  \/ a[4] < b[4]
  \/ a[4] = b[4] /\ a[3] < b[3]
  \/ a[4] = b[4] /\ a[3] = b[3] /\ a[2] < b[2]
  \/ a[4] = b[4] /\ a[3] = b[3] /\ a[2] = b[2] /\ a[1] < b[1]

\* a + k for a small k, not reduced
U64AddSmall(a, k) ==
  LET t0 == a[1] + k
      t1 == a[2] + (t0 \div Base)
      t2 == a[3] + (t1 \div Base)
      t3 == a[4] + (t2 \div Base)
  IN  <<t0 % Base, t1 % Base, t2 % Base, t3>>

\* a - b for a >= b
U64Sub(a, b) ==
  LET d0 == a[1] - b[1]
      b0 == IF d0 < 0 THEN 1 ELSE 0
      d1 == a[2] - b[2] - b0
      b1 == IF d1 < 0 THEN 1 ELSE 0
      d2 == a[3] - b[3] - b1
      b2 == IF d2 < 0 THEN 1 ELSE 0
      d3 == a[4] - b[4] - b2
  IN  <<d0 + b0 * Base, d1 + b1 * Base, d2 + b2 * Base, d3>>

\* reduction modulo 2^64 of a value below 2^65
U64Wrap(a) == IF U64Less(a, TwoTo64) THEN a ELSE U64Sub(a, TwoTo64)

\* 10 * a + d, not reduced
U64Mul10Add(a, d) ==
  LET t0 == a[1] * 10 + d
      t1 == a[2] * 10 + (t0 \div Base)
      t2 == a[3] * 10 + (t1 \div Base)
      t3 == a[4] * 10 + (t2 \div Base)
  IN  <<t0 % Base, t1 % Base, t2 % Base, t3>>

\* do_div(a, NSEC_PER_MSEC): the quotient
do_div_msec(a) == <<a[2], a[3], a[4], 0>>

\* ms * NSEC_PER_MSEC as five limbs, and a u64 widened to five limbs
MsecToNsec(ms) == <<0, ms[1], ms[2], ms[3], ms[4]>>

Widen(a) == <<a[1], a[2], a[3], a[4], 0>>

WideLess(a, b) ==
  \/ a[5] < b[5]
  \/ a[5] = b[5] /\ U64Less(SubSeq(a, 1, 4), SubSeq(b, 1, 4))

(***************************************************************************)
(* kstrtou64(s, 10, &res): optional '+', decimal digits, optional final    *)
(* newline; EINVAL without digits or with trailing characters, ERANGE (34) *)
(* on overflow.  The result is [err, val].                                 *)
(***************************************************************************)
RECURSIVE parse_digits(_, _, _)
parse_digits(s, acc, n) ==
  IF s # << >> /\ isdigit(Head(s))
  THEN LET v == U64Mul10Add(acc, DigitVal(Head(s)))
       IN  IF U64Less(v, TwoTo64)
           THEN parse_digits(Tail(s), v, n + 1)
           ELSE [overflow |-> TRUE, val |-> U64Zero, rest |-> Tail(s), rv |-> n + 1]
  ELSE [overflow |-> FALSE, val |-> acc, rest |-> s, rv |-> n]

kstrtou64(s0) ==
  LET s == IF s0 # << >> /\ Head(s0) = "+" THEN Tail(s0) ELSE s0
      p == parse_digits(s, U64Zero, 0)
      r == IF p.rest # << >> /\ Head(p.rest) = "\n" THEN Tail(p.rest) ELSE p.rest
  IN  IF p.overflow THEN [err |-> 34, val |-> U64Zero]
      ELSE IF p.rv = 0 THEN [err |-> EINVAL, val |-> U64Zero]
      ELSE IF r # << >> THEN [err |-> EINVAL, val |-> U64Zero]
      ELSE [err |-> 0, val |-> p.val]

(***************************************************************************)
(* Wakelock filter tables                                                  *)
(***************************************************************************)
blocked_wakelocks ==
  << <<"u", "f", "s", "_", "h", "b", "a">>,
     <<"u", "f", "s", "_", "p", "m">>,
     <<"u", "f", "s", "c", "l", "k", "s">>,
     <<"u", "f", "s", "-", "e", "v", "e", "n", "t">>,
     <<"u", "f", "s", "-", "b", "u", "s", "m", "o", "n">>,
     <<"s", "c", "s", "i", "_", "e", "h">>,
     <<"s", "d", "c", "a", "r", "d", "f", "s">>,
     <<"v", "o", "l", "d">>,
     <<"w", "l", "a", "n", "_", "t", "i", "m", "e", "r">>,
     <<"w", "i", "f", "i", "_", "l", "o", "w", "_", "l", "a", "t", "e", "n", "c", "y">>,
     <<"n", "e", "t", "_", "s", "c", "h", "e", "d", "u", "l", "e", "r">>,
     <<"i", "p", "a", "_", "w", "s">>,
     <<"l", "o", "g", "d">>,
     <<"d", "p", "_", "w", "a", "k", "e", "l", "o", "c", "k">>,
     <<"s", "y", "s", "t", "e", "m", "_", "s", "u", "s", "p", "e", "n", "d">>,
     <<"s", "s", "r">> >>

\* the substrings tested first in should_block_wakelock
allowed_wakelocks ==
  << <<"d", "t", "2", "w">>,
     <<"d", "o", "u", "b", "l", "e", "_", "t", "a", "p">>,
     <<"f", "a", "c", "e", "u", "n", "l", "o", "c", "k">>,
     <<"f", "a", "c", "e", "r", "e", "c", "o", "g">>,
     <<"m", "e", "d", "i", "a">>,
     <<"a", "u", "d", "i", "o">>,
     <<"v", "i", "d", "e", "o">> >>

(***************************************************************************)
(* State                                                                   *)
(***************************************************************************)
Threads == {"t1", "t2"}

VARIABLES
  heap,                 \* struct wakelock objects: [name, ws]
  wakelocks_tree,       \* the rb-tree, as its in-order sequence of objects
  wakelocks_lru_list,   \* the LRU list, head (most recent) first
  number_of_wakelocks,
  wakelocks_gc_count,
  work_pending,         \* wakelock_work is queued
  wakelocks_lock,       \* owner of the mutex, or "free"
  screen_is_off,
  sensor_event_active,
  now,                  \* ktime_get(), in seconds
  pc,                   \* position of each caller
  gc,                   \* the worker running __wakelocks_gc
  call                  \* the call each caller is in: request, return value, effect

vars ==
  << heap, wakelocks_tree, wakelocks_lru_list, number_of_wakelocks,
     wakelocks_gc_count, work_pending, wakelocks_lock, screen_is_off,
     sensor_event_active, now, pc, gc, call >>

registry ==
  << heap, wakelocks_tree, wakelocks_lru_list, number_of_wakelocks,
     wakelocks_gc_count, work_pending >>

NoMsec == << >>

\* a caller that is in no call
NoCall == [op |-> "none", buf |-> << >>, ret |-> 0, blocked |-> FALSE, msec |-> NoMsec]

\* a free object of the heap
NoWakelock ==
  [name |-> << >>, ws |-> [active |-> FALSE, timer |-> FALSE, last_time |-> 0]]

\* the worker at rest; inspected and freed record what the current run has done
GcIdle ==
  [pc |-> "idle", now |-> 0, pos |-> 0, idle_time |-> 0, active |-> FALSE,
   freed |-> 0, inspected |-> {}]

Init ==
  /\ heap = [i \in 1..MaxObj |-> NoWakelock]
  /\ wakelocks_tree = << >>
  /\ wakelocks_lru_list = << >>
  /\ number_of_wakelocks = 0
  /\ wakelocks_gc_count = 0
  /\ work_pending = FALSE
  /\ wakelocks_lock = "free"
  /\ screen_is_off = FALSE
  /\ sensor_event_active = FALSE
  /\ now = 0
  /\ pc = [t \in Threads |-> "idle"]
  /\ gc = GcIdle
  /\ call = [t \in Threads |-> NoCall]

(***************************************************************************)
(* The wakeup source of a wakelock (drivers/base/power/wakeup.c)           *)
(***************************************************************************)
wakeup_source_register(t) ==
  [active |-> FALSE, timer |-> FALSE, last_time |-> t]

\* __pm_stay_awake(ws)
pm_stay_awake(ws, t) ==
  [ws EXCEPT !.active = TRUE, !.timer = FALSE, !.last_time = t]

\* __pm_wakeup_event(ws, msec): active until the timer fires
pm_wakeup_event(ws, t) ==
  [ws EXCEPT !.active = TRUE, !.timer = TRUE, !.last_time = t]

\* __pm_relax(ws)
pm_relax(ws, t) ==
  [ws EXCEPT !.active = FALSE, !.timer = FALSE, !.last_time = t]

\* the timer of a wakeup event fires
pm_wakeup_timer_fn(ws) ==
  [ws EXCEPT !.active = FALSE, !.timer = FALSE]

(***************************************************************************)
(* Limit, LRU list                                                         *)
(***************************************************************************)
wakelocks_limit_exceeded(n) == n > CONFIG_PM_WAKELOCKS_LIMIT

increment_wakelocks_number(n) == n + 1

\* a destruction that does not count
decrement_wakelocks_number_mut(n) == n

decrement_wakelocks_number(n) == n - 1

Remove(seq, x) == SelectSeq(seq, LAMBDA y : y # x)

\* list_add(&wl->lru, &wakelocks_lru_list)
wakelocks_lru_add(lru, wl) == <<wl>> \o lru

\* a touch that leaves the wakelock where it is in the list
wakelocks_lru_most_recent_mut(lru, wl) == lru

\* list_move(&wl->lru, &wakelocks_lru_list)
wakelocks_lru_most_recent(lru, wl) == <<wl>> \o Remove(lru, wl)

(***************************************************************************)
(* wakelock_lookup_add                                                     *)
(***************************************************************************)
\* a comparison without the test of wl->name[len]
lookup_diff_mut(name, len, wlname) == strncmp(name, wlname, len)

\* the comparison of one step of the descent: 0 when the node is the name
lookup_diff(name, len, wlname) ==
  LET diff == strncmp(name, wlname, len)
  IN  IF diff = 0
      THEN IF CharAt(wlname, len + 1) # NUL THEN -1 ELSE 0
      ELSE diff

\* the descent from the root; the subtree of the in-order range lo..hi has
\* its middle node as root
RECURSIVE lookup_walk(_, _, _, _, _, _)
lookup_walk(hp, tree, name, len, lo, hi) ==
  IF lo > hi THEN [wl |-> NULL, pos |-> lo]
  ELSE LET mid == (lo + hi) \div 2
           diff == lookup_diff(name, len, hp[tree[mid]].name)
       IN  IF diff = 0 THEN [wl |-> tree[mid], pos |-> mid]
           ELSE IF diff < 0 THEN lookup_walk(hp, tree, name, len, lo, mid - 1)
           ELSE lookup_walk(hp, tree, name, len, mid + 1, hi)

InsertAt(seq, i, x) == SubSeq(seq, 1, i - 1) \o <<x>> \o SubSeq(seq, i, Len(seq))

FreeObjs(hp) == {i \in 1..MaxObj : hp[i] = NoWakelock}

\* kzalloc(): the lowest free object, NULL when memory is exhausted
kzalloc(hp, alloc_ok) ==
  IF alloc_ok /\ FreeObjs(hp) # {}
  THEN CHOOSE i \in FreeObjs(hp) : \A j \in FreeObjs(hp) : i <= j
  ELSE NULL

\* the result: the wakelock or the error, and the registry after the call
wakelock_lookup_add(name, len, add_if_not_found, alloc_ok) ==
  LET w == lookup_walk(heap, wakelocks_tree, name, len, 1, Len(wakelocks_tree))
      same == [wl |-> w.wl, err |-> 0, heap |-> heap, tree |-> wakelocks_tree,
               lru |-> wakelocks_lru_list, number |-> number_of_wakelocks]
      new == kzalloc(heap, alloc_ok)
  IN  IF w.wl # NULL THEN same
      ELSE IF ~add_if_not_found THEN [same EXCEPT !.err = -EINVAL]
      ELSE IF wakelocks_limit_exceeded(number_of_wakelocks)
           THEN [same EXCEPT !.err = -ENOSPC]
      ELSE IF new = NULL THEN [same EXCEPT !.err = -ENOMEM]
      ELSE [wl |-> new, err |-> 0,
            heap |-> [heap EXCEPT ![new] =
                        [name |-> SubSeq(name, 1, len),
                         ws |-> wakeup_source_register(now)]],
            tree |-> InsertAt(wakelocks_tree, w.pos, new),
            lru |-> wakelocks_lru_add(wakelocks_lru_list, new),
            number |-> increment_wakelocks_number(number_of_wakelocks)]

(***************************************************************************)
(* Wakelock filter                                                         *)
(***************************************************************************)
should_block_wakelock(name) ==
  IF sensor_event_active THEN FALSE
  ELSE IF \E i \in 1..Len(allowed_wakelocks) : strstr(name, allowed_wakelocks[i])
       THEN FALSE
  ELSE \E i \in 1..Len(blocked_wakelocks) : strstr(name, blocked_wakelocks[i])

wakelock_filter_sensor_event_start ==
  /\ sensor_event_active' = TRUE
  /\ UNCHANGED << registry, wakelocks_lock, screen_is_off, now, pc, gc, call >>

wakelock_filter_sensor_event_end ==
  /\ sensor_event_active' = FALSE
  /\ UNCHANGED << registry, wakelocks_lock, screen_is_off, now, pc, gc, call >>

\* an FB_EVENT_BLANK notification carrying the blank state
fb_notifier_callback(unblank) ==
  /\ screen_is_off' = ~unblank
  /\ UNCHANGED << registry, wakelocks_lock, sensor_event_active, now, pc, gc, call >>

(***************************************************************************)
(* pm_wake_lock                                                            *)
(***************************************************************************)
\* the length of the leading run of non-space characters of buf
RECURSIVE name_len(_)
name_len(buf) ==
  IF buf # << >> /\ ~isspace(Head(buf)) THEN 1 + name_len(Tail(buf)) ELSE 0

\* what follows the name: str after the scanning loop
after_name(buf) == StrFrom(buf, name_len(buf) + 1)

\* the test *str && *str != '\n'
has_timeout(buf) == after_name(buf) # << >> /\ Head(after_name(buf)) # "\n"

\* the filter test of pm_wake_lock
filter_blocks(buf) == screen_is_off /\ should_block_wakelock(buf)

\* timeout_ms = timeout_ns + NSEC_PER_MSEC - 1; do_div(timeout_ms, NSEC_PER_MSEC)
timeout_to_msec(timeout_ns) ==
  do_div_msec(U64Wrap(U64AddSmall(timeout_ns, NSEC_PER_MSEC - 1)))

\* an entry that logs the blocked request and goes on
pm_wake_lock_entry_mut(buf, cap) ==
  IF ~cap THEN [ret |-> -EPERM, blocked |-> FALSE, go |-> FALSE]
  ELSE IF name_len(buf) = 0 THEN [ret |-> -EINVAL, blocked |-> FALSE, go |-> FALSE]
  ELSE IF has_timeout(buf) /\ kstrtou64(skip_spaces(after_name(buf))).err # 0
       THEN [ret |-> -EINVAL, blocked |-> FALSE, go |-> FALSE]
  ELSE [ret |-> 0, blocked |-> filter_blocks(buf), go |-> TRUE]

\* the part of pm_wake_lock before mutex_lock: the return value, or "lock"
pm_wake_lock_entry(buf, cap) ==
  IF ~cap THEN [ret |-> -EPERM, blocked |-> FALSE, go |-> FALSE]
  ELSE IF name_len(buf) = 0 THEN [ret |-> -EINVAL, blocked |-> FALSE, go |-> FALSE]
  ELSE IF filter_blocks(buf) THEN [ret |-> 0, blocked |-> TRUE, go |-> FALSE]
  ELSE IF has_timeout(buf) /\ kstrtou64(skip_spaces(after_name(buf))).err # 0
       THEN [ret |-> -EINVAL, blocked |-> FALSE, go |-> FALSE]
  ELSE [ret |-> 0, blocked |-> FALSE, go |-> TRUE]

pm_wake_lock(t, buf, cap, alloc_ok) ==
  LET e == pm_wake_lock_entry(buf, cap)
      len == name_len(buf)
      timeout_ns == IF has_timeout(buf)
                    THEN kstrtou64(skip_spaces(after_name(buf))).val
                    ELSE U64Zero
      timeout_ms == timeout_to_msec(timeout_ns)
      r == wakelock_lookup_add(buf, len, TRUE, alloc_ok)
      ws == r.heap[r.wl].ws
  IN
  /\ pc[t] = "idle"
  /\ IF ~e.go
     THEN /\ call' = [call EXCEPT ![t] = [op |-> "lock", buf |-> buf, ret |-> e.ret,
                                           blocked |-> e.blocked, msec |-> NoMsec]]
          /\ pc' = [pc EXCEPT ![t] = "ret"]
          /\ UNCHANGED << registry, wakelocks_lock >>
     ELSE /\ wakelocks_lock = "free"
          /\ wakelocks_lock' = t
          /\ pc' = [pc EXCEPT ![t] = "out"]
          /\ IF r.err # 0
             THEN /\ call' = [call EXCEPT ![t] = [op |-> "lock", buf |-> buf, ret |-> r.err,
                                                   blocked |-> e.blocked, msec |-> NoMsec]]
                  /\ UNCHANGED registry
             ELSE /\ heap' = [r.heap EXCEPT ![r.wl].ws =
                                IF timeout_ns # U64Zero
                                THEN pm_wakeup_event(ws, now)
                                ELSE pm_stay_awake(ws, now)]
                  /\ wakelocks_tree' = r.tree
                  /\ wakelocks_lru_list' = wakelocks_lru_most_recent(r.lru, r.wl)
                  /\ number_of_wakelocks' = r.number
                  /\ call' = [call EXCEPT ![t] =
                                [op |-> "lock", buf |-> buf, ret |-> 0, blocked |-> e.blocked,
                                 msec |-> IF timeout_ns # U64Zero THEN timeout_ms ELSE NoMsec]]
                  /\ UNCHANGED << wakelocks_gc_count, work_pending >>
  /\ UNCHANGED << screen_is_off, sensor_event_active, now, gc >>

(***************************************************************************)
(* pm_wake_unlock                                                          *)
(***************************************************************************)
\* the length after the final newline is stripped
unlock_len(buf) ==
  IF Len(buf) > 0 /\ buf[Len(buf)] = "\n" THEN Len(buf) - 1 ELSE Len(buf)

\* a release that returns without __pm_relax
pm_wake_unlock_mut(t, buf, cap) ==
  LET len == unlock_len(buf)
      r == wakelock_lookup_add(buf, len, FALSE, FALSE)
  IN
  /\ pc[t] = "idle"
  /\ IF ~cap \/ len = 0
     THEN /\ call' = [call EXCEPT ![t] =
                        [op |-> "unlock", buf |-> buf, ret |-> IF ~cap THEN -EPERM ELSE -EINVAL,
                         blocked |-> FALSE, msec |-> NoMsec]]
          /\ pc' = [pc EXCEPT ![t] = "ret"]
          /\ UNCHANGED << registry, wakelocks_lock >>
     ELSE /\ wakelocks_lock = "free"
          /\ wakelocks_lock' = t
          /\ call' = [call EXCEPT ![t] = [op |-> "unlock", buf |-> buf, ret |-> r.err,
                                           blocked |-> FALSE, msec |-> NoMsec]]
          /\ IF r.err # 0
             THEN /\ pc' = [pc EXCEPT ![t] = "out"]
                  /\ UNCHANGED registry
             ELSE /\ pc' = [pc EXCEPT ![t] = "gc"]
                  /\ wakelocks_lru_list' = wakelocks_lru_most_recent(wakelocks_lru_list, r.wl)
                  /\ UNCHANGED << heap, wakelocks_tree, number_of_wakelocks,
                                  wakelocks_gc_count, work_pending >>
  /\ UNCHANGED << screen_is_off, sensor_event_active, now, gc >>

pm_wake_unlock(t, buf, cap) ==
  LET len == unlock_len(buf)
      r == wakelock_lookup_add(buf, len, FALSE, FALSE)
  IN
  /\ pc[t] = "idle"
  /\ IF ~cap \/ len = 0
     THEN /\ call' = [call EXCEPT ![t] =
                        [op |-> "unlock", buf |-> buf, ret |-> IF ~cap THEN -EPERM ELSE -EINVAL,
                         blocked |-> FALSE, msec |-> NoMsec]]
          /\ pc' = [pc EXCEPT ![t] = "ret"]
          /\ UNCHANGED << registry, wakelocks_lock >>
     ELSE /\ wakelocks_lock = "free"
          /\ wakelocks_lock' = t
          /\ call' = [call EXCEPT ![t] = [op |-> "unlock", buf |-> buf, ret |-> r.err,
                                           blocked |-> FALSE, msec |-> NoMsec]]
          /\ IF r.err # 0
             THEN /\ pc' = [pc EXCEPT ![t] = "out"]
                  /\ UNCHANGED registry
             ELSE /\ pc' = [pc EXCEPT ![t] = "gc"]
                  /\ heap' = [heap EXCEPT ![r.wl].ws = pm_relax(heap[r.wl].ws, now)]
                  /\ wakelocks_lru_list' = wakelocks_lru_most_recent(wakelocks_lru_list, r.wl)
                  /\ UNCHANGED << wakelocks_tree, number_of_wakelocks,
                                  wakelocks_gc_count, work_pending >>
  /\ UNCHANGED << screen_is_off, sensor_event_active, now, gc >>

\* a trigger that schedules the sweep one call early
wakelocks_gc_mut(t, expedite) ==
  /\ pc[t] = "gc"
  /\ pc' = [pc EXCEPT ![t] = "out"]
  /\ IF expedite
     THEN /\ work_pending' = TRUE
          /\ UNCHANGED wakelocks_gc_count
     ELSE /\ wakelocks_gc_count' = wakelocks_gc_count + 1
          /\ work_pending' = (work_pending \/ wakelocks_gc_count + 1 >= WL_GC_COUNT_MAX)
  /\ UNCHANGED << heap, wakelocks_tree, wakelocks_lru_list, number_of_wakelocks,
                  wakelocks_lock, screen_is_off, sensor_event_active, now, gc, call >>

\* wakelocks_gc(), called by pm_wake_unlock; expedite is idle_cpu(cpu)
wakelocks_gc(t, expedite) ==
  /\ pc[t] = "gc"
  /\ pc' = [pc EXCEPT ![t] = "out"]
  /\ IF expedite
     THEN /\ work_pending' = TRUE
          /\ UNCHANGED wakelocks_gc_count
     ELSE /\ wakelocks_gc_count' = wakelocks_gc_count + 1
          /\ work_pending' = (work_pending \/ wakelocks_gc_count + 1 > WL_GC_COUNT_MAX)
  /\ UNCHANGED << heap, wakelocks_tree, wakelocks_lru_list, number_of_wakelocks,
                  wakelocks_lock, screen_is_off, sensor_event_active, now, gc, call >>

\* the mutex_unlock at the label out of pm_wake_lock and pm_wake_unlock and at
\* the end of pm_show_wakelocks, and the return to the caller
mutex_unlock(t) ==
  /\ pc[t] = "out"
  /\ wakelocks_lock = t
  /\ wakelocks_lock' = "free"
  /\ pc' = [pc EXCEPT ![t] = "idle"]
  /\ call' = [call EXCEPT ![t] = NoCall]
  /\ UNCHANGED << registry, screen_is_off, sensor_event_active, now, gc >>

\* a return before mutex_lock
early_return(t) ==
  /\ pc[t] = "ret"
  /\ pc' = [pc EXCEPT ![t] = "idle"]
  /\ call' = [call EXCEPT ![t] = NoCall]
  /\ UNCHANGED << registry, wakelocks_lock, screen_is_off, sensor_event_active, now, gc >>

(***************************************************************************)
(* pm_show_wakelocks                                                       *)
(***************************************************************************)
\* sysfs_emit_at(buf, at, "%s", s): s is written at the offset at of buf
sysfs_emit_at(buf, at, s) == SubSeq(buf, 1, at) \o s

\* a listing that ignores the selector
show_match_mut(active, show_active) == active

\* the test wl->ws->active == show_active
show_match(active, show_active) == active = show_active

rb_first(tree) == IF tree = << >> THEN NULL ELSE 1

rb_next(tree, node) == IF node < Len(tree) THEN node + 1 ELSE NULL

\* mutex_lock; node = rb_first(&wakelocks_tree); reads records the values
\* of active that the loop has read, in the order of the visit
pm_show_wakelocks(t, show_active) ==
  /\ pc[t] = "idle"
  /\ wakelocks_lock = "free"
  /\ wakelocks_lock' = t
  /\ pc' = [pc EXCEPT ![t] = "show"]
  /\ call' = [call EXCEPT ![t] =
                [op |-> "show", buf |-> << >>, ret |-> 0, show_active |-> show_active,
                 node |-> rb_first(wakelocks_tree), reads |-> << >>]]
  /\ UNCHANGED << registry, screen_is_off, sensor_event_active, now, gc >>

\* one turn of the loop over the tree
show_next(t) ==
  /\ pc[t] = "show"
  /\ call[t].node # NULL
  /\ LET wl == wakelocks_tree[call[t].node]
         active == heap[wl].ws.active
         out == IF show_match(active, call[t].show_active)
                THEN sysfs_emit_at(call[t].buf, call[t].ret, heap[wl].name \o <<" ">>)
                ELSE call[t].buf
     IN  call' = [call EXCEPT ![t].buf = out,
                              ![t].ret = Len(out),
                              ![t].node = rb_next(wakelocks_tree, call[t].node),
                              ![t].reads = Append(call[t].reads, active)]
  /\ UNCHANGED << registry, wakelocks_lock, screen_is_off, sensor_event_active,
                  now, pc, gc >>

\* the final newline; the mutex_unlock and the return follow
show_end(t) ==
  /\ pc[t] = "show"
  /\ call[t].node = NULL
  /\ LET out == sysfs_emit_at(call[t].buf, call[t].ret, <<"\n">>)
     IN  call' = [call EXCEPT ![t].buf = out, ![t].ret = Len(out)]
  /\ pc' = [pc EXCEPT ![t] = "out"]
  /\ UNCHANGED << registry, wakelocks_lock, screen_is_off, sensor_event_active,
                  now, gc >>

(***************************************************************************)
(* __wakelocks_gc, run by the workqueue                                    *)
(***************************************************************************)
\* ktime_to_ns(ktime_sub(now, last_time)) as u64, in seconds
idle_time(t_now, last_time) ==
  IF t_now >= last_time THEN t_now - last_time ELSE 2 * MaxTicks * WL_GC_TIME_SEC

\* a scan that also stops at a wakelock idle for exactly the threshold
gc_too_recent_mut(idle) == idle <= WL_GC_TIME_SEC

\* the test that ends the scan
gc_too_recent(idle) == idle < WL_GC_TIME_SEC

\* a sweep that frees whatever is old enough
gc_may_free_mut(active) == TRUE

\* the test that guards the destruction
gc_may_free(active) == ~active

\* the workqueue takes wakelock_work and calls __wakelocks_gc
gc_dequeue ==
  /\ gc.pc = "idle"
  /\ work_pending
  /\ work_pending' = FALSE
  /\ gc' = [gc EXCEPT !.pc = "lock"]
  /\ UNCHANGED << heap, wakelocks_tree, wakelocks_lru_list, number_of_wakelocks,
                  wakelocks_gc_count, wakelocks_lock, screen_is_off,
                  sensor_event_active, now, pc, call >>

\* a sweep that does not wait for the mutex
gc_lock_mut ==
  /\ gc.pc = "lock"
  /\ wakelocks_lock' = "kworker"
  /\ gc' = [gc EXCEPT !.pc = "scan", !.now = now, !.pos = Len(wakelocks_lru_list),
                      !.freed = 0, !.inspected = {}]
  /\ UNCHANGED << registry, screen_is_off, sensor_event_active, now, pc, call >>

\* mutex_lock; now = ktime_get(); the scan starts at the tail of the list
gc_lock ==
  /\ gc.pc = "lock"
  /\ wakelocks_lock = "free"
  /\ wakelocks_lock' = "kworker"
  /\ gc' = [gc EXCEPT !.pc = "scan", !.now = now, !.pos = Len(wakelocks_lru_list),
                      !.freed = 0, !.inspected = {}]
  /\ UNCHANGED << registry, screen_is_off, sensor_event_active, now, pc, call >>

\* the reads of last_time and active under the lock of the wakeup source
gc_inspect ==
  /\ gc.pc = "scan"
  /\ gc.pos >= 1
  /\ LET ws == heap[wakelocks_lru_list[gc.pos]].ws
     IN  gc' = [gc EXCEPT !.pc = "decide",
                          !.idle_time = idle_time(gc.now, ws.last_time),
                          !.active = ws.active,
                          !.inspected = gc.inspected \cup {wakelocks_lru_list[gc.pos]}]
  /\ UNCHANGED << registry, wakelocks_lock, screen_is_off, sensor_event_active,
                  now, pc, call >>

\* a sweep that frees a wakelock and leaves its node in the tree
gc_decide_mut ==
  /\ gc.pc = "decide"
  /\ LET wl == wakelocks_lru_list[gc.pos]
     IN  IF gc_too_recent(gc.idle_time)
         THEN /\ gc' = [gc EXCEPT !.pc = "end", !.idle_time = 0, !.active = FALSE]
              /\ UNCHANGED registry
         ELSE IF gc_may_free(gc.active)
         THEN /\ heap' = [heap EXCEPT ![wl] = NoWakelock]
              /\ wakelocks_lru_list' = Remove(wakelocks_lru_list, wl)
              /\ number_of_wakelocks' = decrement_wakelocks_number(number_of_wakelocks)
              /\ gc' = [gc EXCEPT !.pc = "scan", !.pos = gc.pos - 1, !.idle_time = 0,
                                  !.active = FALSE, !.freed = gc.freed + 1]
              /\ UNCHANGED << wakelocks_tree, wakelocks_gc_count, work_pending >>
         ELSE /\ gc' = [gc EXCEPT !.pc = "scan", !.pos = gc.pos - 1, !.idle_time = 0,
                                  !.active = FALSE]
              /\ UNCHANGED registry
  /\ UNCHANGED << wakelocks_lock, screen_is_off, sensor_event_active, now, pc, call >>

\* the rest of the loop body
gc_decide ==
  /\ gc.pc = "decide"
  /\ LET wl == wakelocks_lru_list[gc.pos]
     IN  IF gc_too_recent(gc.idle_time)
         THEN /\ gc' = [gc EXCEPT !.pc = "end", !.idle_time = 0, !.active = FALSE]
              /\ UNCHANGED registry
         ELSE IF gc_may_free(gc.active)
         THEN /\ heap' = [heap EXCEPT ![wl] = NoWakelock]
              /\ wakelocks_tree' = Remove(wakelocks_tree, wl)
              /\ wakelocks_lru_list' = Remove(wakelocks_lru_list, wl)
              /\ number_of_wakelocks' = decrement_wakelocks_number(number_of_wakelocks)
              /\ gc' = [gc EXCEPT !.pc = "scan", !.pos = gc.pos - 1, !.idle_time = 0,
                                  !.active = FALSE, !.freed = gc.freed + 1]
              /\ UNCHANGED << wakelocks_gc_count, work_pending >>
         ELSE /\ gc' = [gc EXCEPT !.pc = "scan", !.pos = gc.pos - 1, !.idle_time = 0,
                                  !.active = FALSE]
              /\ UNCHANGED registry
  /\ UNCHANGED << wakelocks_lock, screen_is_off, sensor_event_active, now, pc, call >>

\* the end of the list is reached
gc_scan_done ==
  /\ gc.pc = "scan"
  /\ gc.pos = 0
  /\ gc' = [gc EXCEPT !.pc = "end"]
  /\ UNCHANGED << registry, wakelocks_lock, screen_is_off, sensor_event_active,
                  now, pc, call >>

\* wakelocks_gc_count = 0; mutex_unlock
gc_end ==
  /\ gc.pc = "end"
  /\ wakelocks_gc_count' = 0
  /\ wakelocks_lock' = "free"
  /\ gc' = GcIdle
  /\ UNCHANGED << heap, wakelocks_tree, wakelocks_lru_list, number_of_wakelocks,
                  work_pending, screen_is_off, sensor_event_active, now, pc, call >>

(***************************************************************************)
(* Environment: timers of the wakeup sources, the clock                    *)
(***************************************************************************)
timer_expire(wl) ==
  /\ heap[wl] # NoWakelock
  /\ heap[wl].ws.timer
  /\ heap' = [heap EXCEPT ![wl].ws = pm_wakeup_timer_fn(heap[wl].ws)]
  /\ UNCHANGED << wakelocks_tree, wakelocks_lru_list, number_of_wakelocks,
                  wakelocks_gc_count, work_pending, wakelocks_lock, screen_is_off,
                  sensor_event_active, now, pc, gc, call >>

\* WL_GC_TIME_SEC seconds pass
tick ==
  /\ now < MaxTicks * WL_GC_TIME_SEC
  /\ now' = now + WL_GC_TIME_SEC
  /\ UNCHANGED << registry, wakelocks_lock, screen_is_off, sensor_event_active,
                  pc, gc, call >>

(***************************************************************************)
(* Requests                                                                *)
(***************************************************************************)
Callers == {"t1"}

LockBufs ==
  { <<"a">>, <<"a", "b">>, <<"b", " ", "1">> }

UnlockBufs ==
  { <<"a">>, <<"a", "b">>, <<"b", "\n">>, <<"\n">> }

DoLock == \E t \in Callers, buf \in LockBufs, cap \in BOOLEAN, alloc_ok \in BOOLEAN :
            pm_wake_lock(t, buf, cap, alloc_ok)

DoUnlock == \E t \in Callers, buf \in UnlockBufs, cap \in BOOLEAN :
              pm_wake_unlock(t, buf, cap)

\* at most MaxBusyReleases releases on a busy CPU between two sweeps
DoGcTrigger == \E t \in Callers, expedite \in BOOLEAN :
                 /\ expedite \/ wakelocks_gc_count < MaxBusyReleases
                 /\ wakelocks_gc(t, expedite)

DoMutexUnlock == \E t \in Callers : mutex_unlock(t)

DoEarlyReturn == \E t \in Callers : early_return(t)

DoTimer == \E wl \in 1..MaxObj : timer_expire(wl)

Next ==
  \/ DoLock
  \/ DoUnlock
  \/ DoGcTrigger
  \/ DoMutexUnlock
  \/ DoEarlyReturn
  \/ gc_dequeue
  \/ gc_lock
  \/ gc_inspect
  \/ gc_decide
  \/ gc_scan_done
  \/ gc_end
  \/ DoTimer
  \/ tick

Spec == Init /\ [][Next]_vars

(***************************************************************************)
(* The filter and the parsing of requests: acquisitions with any text      *)
(* after the name, while the display and the sensor change the flags       *)
(***************************************************************************)
FilterBufs ==
  { <<"a">>,
    <<"l", "o", "g", "d">>,
    <<"l", "o", "g", "d", "_", "a", "u", "d", "i", "o">>,
    <<" ", "a">>,
    <<"a", " ", "x">>,
    <<"a", "\n", "x">>,
    <<"a", " ", "l", "o", "g", "d">>,
    <<"l", "o", "g", "d", " ", "x">>,
    <<"l", "o", "g", "d", " ", "a", "u", "d", "i", "o">>,
    <<"a", " ", "0">>,
    <<"a", " ", "1">>,
    <<"a", " ", " ", "+", "5">>,
    <<"a", " ", "1", "0", "0", "0", "0", "0", "1", "\n">>,
    <<"a", " ", "1", "8", "4", "4", "6", "7", "4", "4", "0", "7", "3", "7", "0", "8", "5", "5", "1", "6", "1", "6">>,
    <<"a", " ", "1", "8", "4", "4", "6", "7", "4", "4", "0", "7", "3", "7", "0", "8", "5", "5", "1", "6", "1", "7">>,
    <<"a", " ", "1", "8", "4", "4", "6", "7", "4", "4", "0", "7", "3", "7", "0", "9", "5", "5", "1", "6", "1", "5">>,
    <<"a", " ", "1", "8", "4", "4", "6", "7", "4", "4", "0", "7", "3", "7", "0", "9", "5", "5", "1", "6", "1", "6">> }

DoLockF == \E t \in Callers, buf \in FilterBufs, cap \in BOOLEAN :
             pm_wake_lock(t, buf, cap, TRUE)

DoFbNotifier == \E unblank \in BOOLEAN : fb_notifier_callback(unblank)

NextFilter ==
  \/ DoLockF
  \/ DoMutexUnlock
  \/ DoEarlyReturn
  \/ DoFbNotifier
  \/ wakelock_filter_sensor_event_start
  \/ wakelock_filter_sensor_event_end

SpecFilter == Init /\ [][NextFilter]_vars

(***************************************************************************)
(* Properties                                                              *)
(***************************************************************************)
\* the name of an acquire request, and of a release request
LockName(buf) == SubSeq(buf, 1, name_len(buf))

UnlockName(buf) == SubSeq(buf, 1, unlock_len(buf))

Objs == 1..MaxObj

InTree(wl) == \E i \in 1..Len(wakelocks_tree) : wakelocks_tree[i] = wl

Registered(name) == \E wl \in Objs : InTree(wl) /\ heap[wl].name = name

\* C1: with the maximum CONFIG_PM_WAKELOCKS_LIMIT = N configured, the number
\* of registered wakelocks never exceeds N after any sequence of acquires,
\* releases and sweeps: the acquire of an (N+1)-th distinct name creates
\* nothing.
C1_LimitNeverExceeded ==
  /\ number_of_wakelocks <= CONFIG_PM_WAKELOCKS_LIMIT
  /\ Len(wakelocks_tree) <= CONFIG_PM_WAKELOCKS_LIMIT

\* C2: the sweep frees no wakelock that it has read as active, and every
\* wakelock it frees is inactive at the moment it is freed.
C2_GcNeverFreesActive ==
  [][\A wl \in Objs :
       (heap[wl] # NoWakelock /\ heap'[wl] = NoWakelock)
         => /\ gc.pc = "decide"
            /\ wl = wakelocks_lru_list[gc.pos]
            /\ ~gc.active
            /\ ~heap[wl].ws.active]_vars

\* the sweep has freed a wakelock after it left an old active one in place
C2_Witness ==
  /\ gc.pc = "scan"
  /\ gc.freed >= 1
  /\ \E i \in 1..Len(wakelocks_lru_list) :
       /\ i > gc.pos
       /\ heap[wakelocks_lru_list[i]].ws.active
       /\ ~gc_too_recent(idle_time(gc.now, heap[wakelocks_lru_list[i]].ws.last_time))

\* C3: an acquire that the filter blocks returns 0 and changes nothing of the
\* registry: no wakelock created, no wakeup source, LRU position, tree,
\* number of wakelocks or sweep counter changed, and the mutex is not taken.
C3_BlockedIsSilentNoOp ==
  [][\A t \in Callers, cap \in BOOLEAN, alloc_ok \in BOOLEAN :
       (call'[t].op = "lock" /\ call'[t].blocked
          /\ pm_wake_lock(t, call'[t].buf, cap, alloc_ok))
         => /\ call'[t].ret = 0
            /\ UNCHANGED << registry, wakelocks_lock >>]_vars

\* a request was blocked while wakelocks were registered
C3_Witness ==
  /\ call["t1"].op = "lock"
  /\ call["t1"].blocked
  /\ call["t1"].ret = 0
  /\ Len(wakelocks_tree) >= 1
  /\ \E i \in 1..Len(wakelocks_tree) : heap[wakelocks_tree[i]].ws.active

\* the decision of the filter as a function of the name and the two flags
NameHasAny(name, list) == \E i \in 1..Len(list) : strstr(name, list[i])

BlockRule(name) ==
  /\ ~sensor_event_active
  /\ ~NameHasAny(name, allowed_wakelocks)
  /\ screen_is_off
  /\ NameHasAny(name, blocked_wakelocks)

\* C4: an acquire with a non-empty name is blocked exactly when
\* sensor_event_active is false, the name has no always-allow substring,
\* screen_is_off is true and the name has a deny-list substring.
C4_BlockedIffRule ==
  [][\A t \in Callers, alloc_ok \in BOOLEAN :
       (call'[t].op = "lock" /\ name_len(call'[t].buf) > 0
          /\ pm_wake_lock(t, call'[t].buf, TRUE, alloc_ok))
         => (call'[t].blocked <=> BlockRule(LockName(call'[t].buf)))]_vars

\* the text after the name is present, is not just a newline, and is not an
\* unsigned 64-bit decimal number
MalformedTimeout(buf) ==
  /\ after_name(buf) # << >>
  /\ after_name(buf) # <<"\n">>
  /\ kstrtou64(skip_spaces(after_name(buf))).err # 0

\* C5: an acquire of a privileged caller with an empty name or a malformed
\* timeout returns -EINVAL and changes nothing, whatever the filter flags.
C5_MalformedRequestFails ==
  [][\A t \in Callers, alloc_ok \in BOOLEAN :
       (call'[t].op = "lock"
          /\ (name_len(call'[t].buf) = 0 \/ MalformedTimeout(call'[t].buf))
          /\ pm_wake_lock(t, call'[t].buf, TRUE, alloc_ok))
         => /\ call'[t].ret = -EINVAL
            /\ UNCHANGED << registry, wakelocks_lock >>]_vars

\* the timeout in nanoseconds that a request asks for
RequestedNsec(buf) == kstrtou64(skip_spaces(after_name(buf))).val

\* C6: the milliseconds passed to the wakeup source for a positive timeout
\* are the ceiling of timeout_ns / 10^6: at least 1, not less than timeout_ns
\* when converted back, and less than timeout_ns + 10^6.
C6_TimeoutRoundedUp ==
  [][\A t \in Callers, alloc_ok \in BOOLEAN :
       (call'[t].op = "lock" /\ call'[t].msec # NoMsec
          /\ pm_wake_lock(t, call'[t].buf, TRUE, alloc_ok))
         => /\ call'[t].msec # U64Zero
            /\ ~WideLess(MsecToNsec(call'[t].msec), Widen(RequestedNsec(call'[t].buf)))
            /\ WideLess(MsecToNsec(call'[t].msec),
                        Widen(U64AddSmall(RequestedNsec(call'[t].buf), NSEC_PER_MSEC)))]_vars

\* C7: a release of a name that is not registered returns -EINVAL and
\* changes nothing: no wakelock, wakeup source, tree, LRU list, number of
\* wakelocks, sweep counter or queued sweep changes, and wakelocks_gc is
\* not called.
C7_UnlockUnknownFails ==
  [][\A t \in Callers :
       (call'[t].op = "unlock"
          /\ ~Registered(UnlockName(call'[t].buf))
          /\ pm_wake_unlock(t, call'[t].buf, TRUE))
         => /\ call'[t].ret = -EINVAL
            /\ pc'[t] # "gc"
            /\ UNCHANGED registry]_vars

\* the release of "a" has failed in the tree that holds "ab" and not "a"
C7_Witness ==
  /\ call["t1"].op = "unlock"
  /\ UnlockName(call["t1"].buf) = <<"a">>
  /\ call["t1"].ret = -EINVAL
  /\ pc["t1"] = "out"
  /\ Registered(<<"a", "b">>)
  /\ ~Registered(<<"a">>)

NoDuplicateNames ==
  \A i, j \in 1..Len(wakelocks_tree) :
    i # j => heap[wakelocks_tree[i]].name # heap[wakelocks_tree[j]].name

\* the wakelock that a successful call has found or created: the head of the
\* LRU list after the call
Found == heap[Head(wakelocks_lru_list)].name

\* C8: no two registered wakelocks have the same name; a successful acquire
\* or release resolves to the wakelock of exactly the requested name, and an
\* acquire of a registered name adds no entry.
C8_NamesUnique ==
  [][/\ NoDuplicateNames'
     /\ \A t \in Callers :
          (call'[t].op = "lock" /\ call'[t].ret = 0 /\ ~call'[t].blocked
             /\ \E alloc_ok \in BOOLEAN : pm_wake_lock(t, call'[t].buf, TRUE, alloc_ok))
            => /\ Found' = LockName(call'[t].buf)
               /\ Registered(LockName(call'[t].buf))
                    => /\ wakelocks_tree' = wakelocks_tree
                       /\ number_of_wakelocks' = number_of_wakelocks
     /\ \A t \in Callers :
          (call'[t].op = "unlock" /\ call'[t].ret = 0
             /\ pm_wake_unlock(t, call'[t].buf, TRUE))
            => Found' = UnlockName(call'[t].buf)]_vars

\* "a" is acquired again while "a" and its extension "ab" are registered
C8_Witness ==
  /\ call["t1"].op = "lock"
  /\ LockName(call["t1"].buf) = <<"a">>
  /\ call["t1"].ret = 0
  /\ Registered(<<"a">>)
  /\ Registered(<<"a", "b">>)
  /\ Len(wakelocks_tree) = 2
  /\ number_of_wakelocks = 2
  /\ pc["t1"] = "out"

(***************************************************************************)
(* The sweep under fair scheduling: a queued work item is run, the mutex   *)
(* is handed to a waiter, and a caller inside a call goes on               *)
(***************************************************************************)
LiveLockBufs == { <<"a">>, <<"b", " ", "1">> }

LiveUnlockBufs == { <<"a">>, <<"b", "\n">> }

DoLockLive == \E t \in Callers, buf \in LiveLockBufs, cap \in BOOLEAN, alloc_ok \in BOOLEAN :
                pm_wake_lock(t, buf, cap, alloc_ok)

DoUnlockLive == \E t \in Callers, buf \in LiveUnlockBufs, cap \in BOOLEAN :
                  pm_wake_unlock(t, buf, cap)

NextLive ==
  \/ DoLockLive
  \/ DoUnlockLive
  \/ DoGcTrigger
  \/ DoMutexUnlock
  \/ DoEarlyReturn
  \/ gc_dequeue
  \/ gc_lock
  \/ gc_inspect
  \/ gc_decide
  \/ gc_scan_done
  \/ gc_end
  \/ DoTimer
  \/ tick

SpecLive ==
  /\ Init /\ [][NextLive]_vars
  /\ WF_vars(gc_dequeue)
  /\ SF_vars(gc_lock)
  /\ WF_vars(gc_inspect)
  /\ WF_vars(gc_decide)
  /\ WF_vars(gc_scan_done)
  /\ WF_vars(gc_end)
  /\ WF_vars(DoGcTrigger)
  /\ WF_vars(DoMutexUnlock)
  /\ WF_vars(DoEarlyReturn)

LockNames == {LockName(buf) : buf \in LiveLockBufs}

\* the wakelock of this name is registered, inactive and idle for at least
\* WL_GC_TIME_SEC
Expired(name) ==
  \E wl \in Objs :
    /\ InTree(wl)
    /\ heap[wl].name = name
    /\ ~heap[wl].ws.active
    /\ idle_time(now, heap[wl].ws.last_time) >= WL_GC_TIME_SEC

\* C9: when sweeps keep being run, a released wakelock that has been idle
\* for the threshold is eventually destroyed, unless it is touched again.
C9_IdleLockCollected ==
  \A name \in LockNames :
    ([]<>(gc.pc = "lock")) => (Expired(name) ~> (~Registered(name) \/ ~Expired(name)))

\* a sweep has freed the wakelock "a" that was released and left idle
C9_Witness ==
  /\ gc.pc = "end"
  /\ gc.freed >= 1
  /\ ~Registered(<<"a">>)
  /\ gc.now >= WL_GC_TIME_SEC
  /\ wakelocks_lru_list = << >>

\* the wakelocks at the positions of the LRU list that the scan has passed
Passed == {wakelocks_lru_list[i] : i \in (gc.pos + 1)..Len(wakelocks_lru_list)}

\* C10: a successful acquire or release leaves its wakelock at the head of
\* the LRU list, and the sweep, which starts at the tail, reads a wakelock
\* only after it has read every wakelock behind it in the list, so the most
\* recently touched one comes last.
C10_RecencyOrder ==
  [][/\ \A t \in Callers :
          (call'[t].op = "lock" /\ call'[t].ret = 0 /\ ~call'[t].blocked
             /\ \E alloc_ok \in BOOLEAN : pm_wake_lock(t, call'[t].buf, TRUE, alloc_ok))
            => /\ Found' = LockName(call'[t].buf)
               /\ Remove(wakelocks_lru_list', Head(wakelocks_lru_list'))
                    = Remove(wakelocks_lru_list, Head(wakelocks_lru_list'))
     /\ \A t \in Callers :
          (call'[t].op = "unlock" /\ call'[t].ret = 0
             /\ pm_wake_unlock(t, call'[t].buf, TRUE))
            => /\ Found' = UnlockName(call'[t].buf)
               /\ Remove(wakelocks_lru_list', Head(wakelocks_lru_list'))
                    = Remove(wakelocks_lru_list, Head(wakelocks_lru_list'))
     /\ gc_lock => gc'.pos = Len(wakelocks_lru_list)
     /\ gc_inspect
          => /\ Passed \subseteq gc.inspected
             /\ gc'.inspected = gc.inspected \cup {wakelocks_lru_list[gc.pos]}
             /\ gc.pos = 1 => {wl \in Objs : InTree(wl)} \subseteq gc'.inspected]_vars

\* the scan reads the most recently touched wakelock, the one just
\* acquired, after the other registered one
C10_Witness ==
  /\ gc.pc = "decide"
  /\ gc.pos = 1
  /\ Len(wakelocks_lru_list) = 2
  /\ {wl \in Objs : InTree(wl)} \subseteq gc.inspected
  /\ heap[Head(wakelocks_lru_list)].ws.active
  /\ Head(wakelocks_lru_list) # Head(wakelocks_tree)

\* the registered wakelock of a name
WakelockOf(name) == CHOOSE wl \in Objs : InTree(wl) /\ heap[wl].name = name

\* C11: a release of a registered name succeeds and leaves its wakelock
\* inactive with no timer pending, whether it was active, active with a
\* timeout or already inactive; an inactive wakelock becomes active only by
\* a successful acquire of its name.
C11_ReleaseLeavesIdle ==
  [][/\ \A t \in Callers :
          (call'[t].op = "unlock"
             /\ Registered(UnlockName(call'[t].buf))
             /\ pm_wake_unlock(t, call'[t].buf, TRUE))
            => /\ call'[t].ret = 0
               /\ heap'[WakelockOf(UnlockName(call'[t].buf))].name = UnlockName(call'[t].buf)
               /\ ~heap'[WakelockOf(UnlockName(call'[t].buf))].ws.active
               /\ ~heap'[WakelockOf(UnlockName(call'[t].buf))].ws.timer
               /\ wakelocks_tree' = wakelocks_tree
     /\ \A wl \in Objs :
          (InTree(wl) /\ ~heap[wl].ws.active /\ heap'[wl].ws.active)
            => \E t \in Callers :
                 /\ pc[t] = "idle"
                 /\ call'[t].op = "lock"
                 /\ call'[t].ret = 0
                 /\ LockName(call'[t].buf) = heap[wl].name]_vars

\* "b", acquired with a timeout, has been released while "a" stays active
C11_Witness ==
  /\ pc["t1"] = "gc"
  /\ call["t1"].op = "unlock"
  /\ call["t1"].ret = 0
  /\ UnlockName(call["t1"].buf) = <<"b">>
  /\ Registered(<<"b">>)
  /\ ~heap[WakelockOf(<<"b">>)].ws.active
  /\ Registered(<<"a">>)
  /\ heap[WakelockOf(<<"a">>)].ws.active

(***************************************************************************)
(* Concurrent callers: two threads acquire, release and list while the     *)
(* sweep runs and timeouts expire                                          *)
(***************************************************************************)
ConcLockBufs == { <<"a">>, <<"b", " ", "1">> }

ConcUnlockBufs == { <<"a">>, <<"b">> }

DoLockConc == \E t \in Threads, buf \in ConcLockBufs : pm_wake_lock(t, buf, TRUE, TRUE)

DoUnlockConc == \E t \in Threads, buf \in ConcUnlockBufs : pm_wake_unlock(t, buf, TRUE)

DoGcTriggerConc == \E t \in Threads, expedite \in BOOLEAN :
                     /\ expedite \/ wakelocks_gc_count < MaxBusyReleases
                     /\ wakelocks_gc(t, expedite)

DoMutexUnlockConc == \E t \in Threads : mutex_unlock(t)

DoShow == \E t \in Threads, show_active \in BOOLEAN : pm_show_wakelocks(t, show_active)

DoShowNext == \E t \in Threads : show_next(t)

DoShowEnd == \E t \in Threads : show_end(t)

NextConc ==
  \/ DoLockConc
  \/ DoUnlockConc
  \/ DoGcTriggerConc
  \/ DoMutexUnlockConc
  \/ DoShow
  \/ DoShowNext
  \/ DoShowEnd
  \/ gc_dequeue
  \/ gc_lock
  \/ gc_inspect
  \/ gc_decide
  \/ gc_scan_done
  \/ gc_end
  \/ DoTimer
  \/ tick

SpecConc == Init /\ [][NextConc]_vars

\* the names of the registered wakelocks, in the order of the tree
TreeNames == [i \in 1..Len(wakelocks_tree) |-> heap[wakelocks_tree[i]].name]

\* the text that lists the names whose active state was read as b
RECURSIVE Listing(_, _, _)
Listing(names, reads, b) ==
  IF names = << >> THEN <<"\n">>
  ELSE (IF Head(reads) = b THEN Head(names) \o <<" ">> ELSE << >>)
         \o Listing(Tail(names), Tail(reads), b)

\* C12: pm_show_wakelocks(buf, b) reads the active state of every registered
\* wakelock once, in the name order of the tree, and returns exactly the
\* names read with active = b, each once and in that order, ended by a
\* newline; no step of the query changes a wakelock, the tree, the LRU list
\* or the number of wakelocks, and no wakelock becomes active during it.
C12_ListMatchesSelector ==
  [][\A t \in Threads :
       /\ (pm_show_wakelocks(t, TRUE) \/ pm_show_wakelocks(t, FALSE)
             \/ show_next(t) \/ show_end(t))
            => UNCHANGED registry
       /\ show_next(t)
            => /\ call[t].node = Len(call[t].reads) + 1
               /\ call'[t].reads =
                    Append(call[t].reads, heap[wakelocks_tree[call[t].node]].ws.active)
       /\ show_end(t)
            => /\ Len(call[t].reads) = Len(wakelocks_tree)
               /\ \A i \in 1..Len(wakelocks_tree) :
                    heap[wakelocks_tree[i]].ws.active => call[t].reads[i]
               /\ call'[t].buf = Listing(TreeNames, call[t].reads, call[t].show_active)
               /\ call'[t].ret = Len(call'[t].buf)]_vars

\* the list of the inactive wakelocks is "b" while "a" is active
C12_Witness ==
  /\ pc["t1"] = "out"
  /\ call["t1"].op = "show"
  /\ ~call["t1"].show_active
  /\ TreeNames = << <<"a">>, <<"b">> >>
  /\ heap[wakelocks_tree[1]].ws.active
  /\ call["t1"].reads = << TRUE, FALSE >>
  /\ call["t1"].buf = <<"b", " ", "\n">>
  /\ call["t1"].ret = 3

\* the positions of the LRU list that the scan has not reached
NotReached == 1..(gc.pos - 1)

\* from the head to the tail of the LRU list the timestamps do not increase
LruAgreesWithLastTime ==
  \A i, j \in 1..Len(wakelocks_lru_list) :
    i < j => heap[wakelocks_lru_list[i]].ws.last_time
               >= heap[wakelocks_lru_list[j]].ws.last_time

\* C13: the order of the LRU list agrees with the order of the last_time
\* stamps, also after timeouts have expired on their own, so when the sweep
\* breaks at a wakelock idle for less than WL_GC_TIME_SEC, every wakelock it
\* has not reached is idle for less than WL_GC_TIME_SEC too.
C13_BreakLeavesOnlyRecent ==
  [][/\ LruAgreesWithLastTime'
     /\ (gc_decide /\ gc_too_recent(gc.idle_time))
          => \A i \in NotReached :
               gc_too_recent(idle_time(gc.now, heap[wakelocks_lru_list[i]].ws.last_time))]_vars

\* the sweep has stopped at the tail, touched just now, in front of "b",
\* whose timeout has run out or which was released
C13_Witness ==
  /\ gc.pc = "end"
  /\ gc.pos = 2
  /\ gc.now = WL_GC_TIME_SEC
  /\ Len(wakelocks_lru_list) = 2
  /\ heap[wakelocks_lru_list[1]].name = <<"b">>
  /\ ~heap[wakelocks_lru_list[1]].ws.active
  /\ heap[wakelocks_lru_list[1]].ws.last_time = WL_GC_TIME_SEC

InLru(wl) == \E i \in 1..Len(wakelocks_lru_list) : wakelocks_lru_list[i] = wl

\* C14: when the sweep has read a wakelock idle for WL_GC_TIME_SEC or more,
\* it goes on to the next one whether the wakelock is active or not; an
\* inactive one is destroyed (out of the tree and of the LRU list, the number
\* of wakelocks one less), also behind an old active one, and an active one
\* is left registered and unchanged.
C14_ActiveOldDoesNotStopSweep ==
  [][(gc_decide /\ gc.idle_time >= WL_GC_TIME_SEC)
       => \A wl \in {wakelocks_lru_list[gc.pos]} :
              /\ gc'.pc = "scan"
              /\ gc'.pos = gc.pos - 1
              /\ ~gc.active
                   => /\ ~InTree(wl)'
                      /\ ~InLru(wl)'
                      /\ heap'[wl] = NoWakelock
                      /\ number_of_wakelocks' = number_of_wakelocks - 1
                      /\ Len(wakelocks_tree') = Len(wakelocks_tree) - 1
                      /\ Len(wakelocks_lru_list') = Len(wakelocks_lru_list) - 1
              /\ gc.active
                   => /\ UNCHANGED registry
                      /\ InTree(wl) /\ InLru(wl)]_vars

\* the sweep has run to the end of the list: it has destroyed one old
\* wakelock and has left the old active one registered
C14_Witness ==
  /\ gc.pc = "end"
  /\ gc.pos = 0
  /\ gc.freed = 1
  /\ number_of_wakelocks = 1
  /\ Len(wakelocks_lru_list) = 1
  /\ wakelocks_lru_list[1] \in gc.inspected
  /\ heap[wakelocks_lru_list[1]].ws.active
  /\ idle_time(gc.now, heap[wakelocks_lru_list[1]].ws.last_time) >= WL_GC_TIME_SEC

(***************************************************************************)
(* The trigger of the sweep: one wakelock is acquired and released again   *)
(* and again on a busy or an idle CPU, up to MaxGcCount counted calls      *)
(***************************************************************************)
CountLockBufs == { <<"a">> }

CountUnlockBufs == { <<"a">>, <<"b">> }

DoLockCount == \E t \in Callers, buf \in CountLockBufs : pm_wake_lock(t, buf, TRUE, TRUE)

DoUnlockCount == \E t \in Callers, buf \in CountUnlockBufs : pm_wake_unlock(t, buf, TRUE)

DoGcTriggerCount == \E t \in Callers, expedite \in BOOLEAN :
                      /\ expedite \/ wakelocks_gc_count < MaxGcCount
                      /\ wakelocks_gc(t, expedite)

NextCount ==
  \/ DoLockCount
  \/ DoUnlockCount
  \/ DoGcTriggerCount
  \/ DoMutexUnlock
  \/ gc_dequeue
  \/ gc_lock
  \/ gc_inspect
  \/ gc_decide
  \/ gc_scan_done
  \/ gc_end
  \/ tick

SpecCount == Init /\ [][NextCount]_vars

\* a step by which a caller leaves wakelocks_gc
TriggerStep(t) == pc[t] = "gc" /\ pc'[t] # "gc"

\* C15: wakelocks_gc is called after every successful release, before the
\* release returns, and by nothing else; on an idle CPU it queues the sweep
\* and leaves wakelocks_gc_count as it is, on a busy one it adds one to the
\* count and queues the sweep only when the new count exceeds
\* WL_GC_COUNT_MAX; the count is set to 0 by the end of a run of the sweep and
\* by nothing else.
C15_TriggerAndCounter ==
  [][/\ \A t \in Callers :
          /\ (pc[t] # "gc" /\ pc'[t] = "gc")
               <=> (pc[t] = "idle" /\ call'[t].op = "unlock" /\ call'[t].ret = 0)
          /\ TriggerStep(t)
               => /\ pc'[t] = "out"
                  /\ wakelocks_lock' = wakelocks_lock
                  /\ \/ /\ wakelocks_gc_count' = wakelocks_gc_count
                        /\ work_pending'
                     \/ /\ wakelocks_gc_count' = wakelocks_gc_count + 1
                        /\ work_pending' =
                             (work_pending \/ wakelocks_gc_count' > WL_GC_COUNT_MAX)
     /\ (wakelocks_gc_count' > wakelocks_gc_count \/ (work_pending' /\ ~work_pending))
          => \E t \in Callers : TriggerStep(t)
     /\ gc_end => wakelocks_gc_count' = 0
     /\ wakelocks_gc_count' < wakelocks_gc_count => gc_end]_vars

\* the 101st counted release has queued the sweep
C15_Witness ==
  /\ wakelocks_gc_count = WL_GC_COUNT_MAX + 1
  /\ work_pending
  /\ pc["t1"] = "out"
  /\ call["t1"].op = "unlock"
  /\ call["t1"].ret = 0
  /\ gc.pc = "idle"

\* the positions of a caller and of the sweep between mutex_lock and
\* mutex_unlock
CallerInside(t) == pc[t] \in {"out", "gc", "show"}

SweepInside == gc.pc \in {"scan", "decide", "end"}

Inside == {t \in Threads : CallerInside(t)} \cup (IF SweepInside THEN {"kworker"} ELSE {})

\* the steps of the owner of the mutex
OwnerStep ==
  \/ DoGcTriggerConc
  \/ DoMutexUnlockConc
  \/ DoShowNext
  \/ DoShowEnd
  \/ gc_inspect
  \/ gc_decide
  \/ gc_scan_done
  \/ gc_end

\* a step of the timer of a wakeup source: only active and timer of one
\* wakeup source change
TimerStep == \E wl \in Objs : timer_expire(wl)

\* C16: with two callers that acquire, release and list and the sweep, at
\* most one of them is between mutex_lock and mutex_unlock, and it is the
\* owner of wakelocks_lock; the tree, the LRU list, the number of wakelocks,
\* the sweep count and the wakelocks change only in steps of the owner (the
\* timer of a wakeup source apart, which belongs to the wakeup source), the
\* reads of the sweep under the lock of the wakeup source are steps of the
\* owner too, and the owner can always take its next step, so the mutex is
\* released again.
C16_MutualExclusion ==
  /\ [](/\ Cardinality(Inside) <= 1
        /\ \A t \in Threads : CallerInside(t) <=> wakelocks_lock = t
        /\ SweepInside <=> wakelocks_lock = "kworker"
        /\ wakelocks_lock # "free" => ENABLED OwnerStep)
  /\ [][/\ (<< wakelocks_tree, wakelocks_lru_list, number_of_wakelocks,
               wakelocks_gc_count >>' # << wakelocks_tree, wakelocks_lru_list,
                                          number_of_wakelocks, wakelocks_gc_count >>
              \/ (heap' # heap /\ ~TimerStep))
             => /\ wakelocks_lock # "free" \/ wakelocks_lock' # "free"
                /\ wakelocks_lock # "free" /\ wakelocks_lock' # "free"
                     => wakelocks_lock' = wakelocks_lock
        /\ gc_inspect => wakelocks_lock = "kworker" /\ wakelocks_lock' = "kworker"]_vars

\* "t2" lists the two wakelocks while the sweep waits for the mutex
C16_Witness ==
  /\ wakelocks_lock = "t2"
  /\ pc["t2"] = "show"
  /\ call["t2"].node = 2
  /\ pc["t1"] = "idle"
  /\ gc.pc = "lock"
  /\ Len(wakelocks_tree) = 2

\* C17: a caller that evaluates the trigger of the sweep in wakelocks_gc
\* (the idle CPU, the count and its threshold, schedule_work) does not own
\* wakelocks_lock.
C17_TriggerOutsideLock ==
  \A t \in Threads : pc[t] = "gc" => wakelocks_lock # t

\* a wakelock is allocated, and a reference leads to an allocated wakelock
Allocated(wl) == heap[wl] # NoWakelock

NoDanglingReference ==
  /\ \A i \in 1..Len(wakelocks_tree) : Allocated(wakelocks_tree[i])
  /\ \A i \in 1..Len(wakelocks_lru_list) : Allocated(wakelocks_lru_list[i])
  /\ gc.pc = "decide" => gc.pos \in 1..Len(wakelocks_lru_list)
  /\ gc.pc = "scan" => gc.pos \in 0..Len(wakelocks_lru_list)
  /\ \A t \in Threads :
       (pc[t] = "show" /\ call[t].node # NULL) => call[t].node \in 1..Len(wakelocks_tree)

\* C18: with two callers that acquire, release and list and the sweep, a
\* wakelock is freed only by the sweep, and only while it is allocated and
\* registered, so at most once; the tree, the LRU list, the cursor of the
\* sweep and the cursor of a list query never lead to a freed wakelock; and
\* the acquire of a name that is not registered creates a wakelock from free
\* memory with a wakeup source of its own.
C18_DestroyedOnceNeverUsed ==
  /\ []NoDanglingReference
  /\ [][\A wl \in Objs :
          /\ (Allocated(wl) /\ ~Allocated(wl)')
               => /\ gc_decide
                  /\ wl = wakelocks_lru_list[gc.pos]
                  /\ InTree(wl)
                  /\ ~InTree(wl)' /\ ~InLru(wl)'
          /\ (~Allocated(wl) /\ Allocated(wl)')
               => /\ ~InTree(wl) /\ ~InLru(wl)
                  /\ ~Registered(heap'[wl].name)
                  /\ InTree(wl)' /\ InLru(wl)'
                  /\ heap'[wl].ws.last_time = now
                  /\ \E t \in Threads :
                       /\ pc[t] = "idle"
                       /\ call'[t].op = "lock"
                       /\ call'[t].ret = 0
                       /\ heap'[wl].name = LockName(call'[t].buf)
                  /\ \A other \in Objs \ {wl} : heap'[other] = heap[other]]_vars

\* the sweep has freed the first wakelock and has left the second one; the
\* memory of the first is free for the next acquire
C18_Witness ==
  /\ gc.pc = "end"
  /\ gc.freed = 1
  /\ ~Allocated(1)
  /\ wakelocks_tree = << 2 >>
  /\ wakelocks_lru_list = << 2 >>
  /\ number_of_wakelocks = 1
  /\ pc["t1"] = "idle" /\ pc["t2"] = "idle"

\* C19: the decision of the filter depends on the name and the two flags
\* only: an acquire is blocked exactly when, with the same screen_is_off and
\* sensor_event_active, every request with the same name and other text
\* after the name is blocked.
C19_FilterDependsOnName ==
  [][\A t \in Callers :
       (call'[t].op = "lock" /\ name_len(call'[t].buf) > 0
          /\ pm_wake_lock(t, call'[t].buf, TRUE, TRUE))
         => \A other \in FilterBufs :
              LockName(other) = LockName(call'[t].buf)
                => (filter_blocks(other) <=> call'[t].blocked)]_vars

SetOf(seq) == {seq[i] : i \in 1..Len(seq)}

NoRepeat(seq) == \A i, j \in 1..Len(seq) : i # j => seq[i] # seq[j]

\* C20: whenever wakelocks_lock is free, the tree and the LRU list hold the
\* same wakelocks, each once, these are the allocated wakelocks, and
\* number_of_wakelocks is the number of nodes of the tree; a step adds a
\* wakelock to the tree, to the LRU list and to the number together, or
\* removes it from the three together.
C20_StructuresAgree ==
  /\ [](wakelocks_lock = "free"
          => /\ SetOf(wakelocks_tree) = SetOf(wakelocks_lru_list)
             /\ NoRepeat(wakelocks_tree)
             /\ NoRepeat(wakelocks_lru_list)
             /\ SetOf(wakelocks_tree) = {wl \in Objs : Allocated(wl)}
             /\ number_of_wakelocks = Len(wakelocks_tree))
  /\ [][/\ Len(wakelocks_tree') - Len(wakelocks_tree)
             = Len(wakelocks_lru_list') - Len(wakelocks_lru_list)
        /\ Len(wakelocks_tree') - Len(wakelocks_tree)
             = number_of_wakelocks' - number_of_wakelocks
        /\ Len(wakelocks_tree') - Len(wakelocks_tree) \in {-1, 0, 1}
        /\ SetOf(wakelocks_tree') = SetOf(wakelocks_lru_list')]_vars

\* after a creation and a destruction the mutex is free: the second
\* wakelock alone is in the tree and in the list
C20_Witness ==
  /\ wakelocks_lock = "free"
  /\ gc.pc = "idle"
  /\ ~Allocated(1)
  /\ Allocated(2)
  /\ wakelocks_tree = << 2 >>
  /\ wakelocks_lru_list = << 2 >>
  /\ number_of_wakelocks = 1

====
